---- MODULE Spec2Model ----
(***************************************************************************)
(* Packing proxies of the distconv DNN backend                             *)
(* (legacy/src/dnn_backend/pack_unpack.cpp).                               *)
(*                                                                         *)
(* Three specifications share the operators translated from the source:    *)
(*   SpecLayout  - is_fully_packed / get_fully_packed_strides applied to   *)
(*                 bounded dims and strides;                               *)
(*   SpecPolicy  - do_pack_unpack() and its function-local static under    *)
(*                 changes of the environment variable;                    *)
(*   Spec        - construction and destruction of PackedTensorReadProxy   *)
(*                 and PackedTensorWriteProxy against a descriptor table,  *)
(*                 a device allocator and the backend copy-transform.      *)
(***************************************************************************)
EXTENDS Integers, Sequences, FiniteSets, TLC

VARIABLES
    platform,      \* "CUDA" or "ROCM": which of H2_HAS_CUDA / H2_HAS_ROCM the build has
    env,           \* value of H2_DISTCONV_FORCE_PACKED: Unset or a sequence of characters
    val_init,      \* has the static `val` of do_pack_unpack been initialised
    val,           \* the static `val` of do_pack_unpack
    getenv_calls,  \* number of std::getenv calls made by do_pack_unpack
    env_seen,      \* the value std::getenv returned to the initialiser (history)
    queries,       \* number of do_pack_unpack() calls made by the policy driver
    last_query,    \* result of the latest do_pack_unpack() call: <<>> or <<result>>
    first_query,   \* result of the first do_pack_unpack() call: <<>> or <<result>>
    t_pc,          \* per thread: where it is inside do_pack_unpack()
    t_ret,         \* per thread: <<value returned by do_pack_unpack()>>, <<>> before
    val_guard,     \* guard of the static `val`: "free" or "busy" (initialisation running)
    in_dims,       \* layout driver: the dims argument
    in_strides,    \* layout driver: the strides argument
    in_dt,         \* size driver: the element type of the descriptor
    out_size,      \* size driver: <<mem_size of allocate>>, <<>> before the call
    out_packed,    \* layout driver: <<result of is_fully_packed>>, <<>> before the call
    out_strides,   \* layout driver: result of get_fully_packed_strides, <<>> before the call
    descs,         \* backend descriptor table: handle -> [dt, dims, strides, live, destroys]
    bufs,          \* device memory: pointer -> [data, bytes, live, frees]
    proxies,       \* proxy objects: name -> fields and construction history
    log,           \* per proxy, the backend / allocator calls it issued, in order
    uncaught       \* std::uncaught_exceptions()

policy_vars == <<platform, env, val_init, val, getenv_calls, env_seen>>
thread_vars == <<t_pc, t_ret, val_guard>>
driver_vars == <<queries, last_query, first_query, t_pc, t_ret, val_guard>>
layout_vars == <<in_dims, in_strides, in_dt, out_size, out_packed, out_strides>>
proxy_vars  == <<descs, bufs, proxies, log, uncaught>>
vars == <<platform, env, val_init, val, getenv_calls, env_seen, queries,
          last_query, first_query, t_pc, t_ret, val_guard, in_dims, in_dt, out_size, in_strides, out_packed,
          out_strides, descs, bufs, proxies, log, uncaught>>

(***************************************************************************)
(* Bounds of the model.                                                    *)
(***************************************************************************)
MaxNDims == 3
MaxDim == 4
MaxStride == 4
MaxEnvLen == 2
MaxQueries == 2
MaxUncaught == 1

Platforms == {"CUDA", "ROCM"}

(***************************************************************************)
(* Tensor layout model.                                                    *)
(***************************************************************************)

\* std::accumulate(first, last, init, std::multiplies<int>{}) over s[from..Len(s)]
RECURSIVE accumulate_mul(_, _, _)
accumulate_mul(s, from, init) ==
    IF from > Len(s) THEN init
    ELSE accumulate_mul(s, from + 1, init * s[from])

\* Faulty variant: the accumulation starts at dims.cbegin() instead of
\* std::next(dims.cbegin()).
is_fully_packed_from_begin(dims, strides) ==
    strides[1] = accumulate_mul(dims, 1, 1)

\* is_fully_packed: strides.front() == prod(dims[1:])
is_fully_packed(dims, strides) ==
    strides[1] = accumulate_mul(dims, 2, 1)

\* std::partial_sum(first, last, out, std::multiplies<int>{}): the k-th output
\* is the product of the first k inputs, computed as a running product.
RECURSIVE partial_sum_mul(_, _)
partial_sum_mul(s, k) ==
    IF k = 1 THEN s[1] ELSE partial_sum_mul(s, k - 1) * s[k]

\* The reversed range [dims.rbegin(), std::prev(dims.rend())): dims[n-1] .. dims[1]
reversed_tail(dims) ==
    [k \in 1..(Len(dims) - 1) |-> dims[Len(dims) + 1 - k]]

\* Faulty variant: the running product is taken over [dims.rbegin() + 1, dims.rend()),
\* so that strides[i] = strides[i+1] * dims[i].
get_fully_packed_strides_shifted(dims) ==
    LET n == Len(dims)
        r == [k \in 1..(n - 1) |-> dims[n - k]]
    IN [i \in 1..n |-> IF i = n THEN 1 ELSE partial_sum_mul(r, n - i)]

\* get_fully_packed_strides: strides(ndims, 1), then the running products of
\* the reversed tail of dims written from std::next(strides.rbegin()) on,
\* i.e. the k-th product lands in strides[n-1-k] (0-based).
get_fully_packed_strides(dims) ==
    LET n == Len(dims)
        r == reversed_tail(dims)
    IN [i \in 1..n |-> IF i = n THEN 1 ELSE partial_sum_mul(r, n - i)]

(***************************************************************************)
(* Packing policy.                                                         *)
(***************************************************************************)
Unset == <<"unset">>
EnvChars == {"0", "1", "x"}
EnvStrings == UNION {[1..n -> EnvChars] : n \in 0..MaxEnvLen}
EnvVals == {Unset} \cup EnvStrings

\* The platform default `tf` of the initialiser (#if H2_HAS_ROCM).
platform_default(pf) == pf = "ROCM"

\* Faulty variant: the value is compared with "0" as a whole string.
env_truthy_whole_string(e) == Len(e) # 0 /\ e # <<"0">>

\* (env && std::strlen(env) && env[0] != '0') for a set variable
env_truthy(e) == Len(e) # 0 /\ e[1] # "0"

\* The lambda that initialises the static `val`.
pack_unpack_initializer(pf, e) ==
    IF e # Unset THEN env_truthy(e) ELSE platform_default(pf)

\* Faulty variant: `val` is not static, every call runs the initialiser.
do_pack_unpack_uncached(r) ==
    /\ r = pack_unpack_initializer(platform, env)
    /\ val' = r
    /\ val_init' = TRUE
    /\ getenv_calls' = getenv_calls + 1
    /\ env_seen' = env

\* do_pack_unpack(): the first call runs the initialiser (one std::getenv),
\* every call returns the static.  `r` is the value returned.
do_pack_unpack(r) ==
    IF val_init
    THEN /\ r = val
         /\ UNCHANGED <<val_init, val, getenv_calls, env_seen>>
    ELSE /\ r = pack_unpack_initializer(platform, env)
         /\ val' = r
         /\ val_init' = TRUE
         /\ getenv_calls' = getenv_calls + 1
         /\ env_seen' = env

\* Threads that call do_pack_unpack()
ThreadIds == {"t1", "t2", "t3"}

\* Faulty variant: the static is initialised without a guard.
static_guard_acquire_unguarded(g) == TRUE

\* `static bool const val = ...`: a thread that finds the static not yet
\* initialised runs the initialiser only if no other thread is running it;
\* otherwise it waits for the initialisation to complete.
static_guard_acquire(g) == g = "free"

(***************************************************************************)
(* Element types, host scalars.                                            *)
(***************************************************************************)
DataTypes == {"FLOAT", "HALF", "DOUBLE"}

\* datatype_size: the `default:` branch throws std::runtime_error
datatype_size_throws(pf, dt) ==
    IF pf = "CUDA" THEN dt \notin {"FLOAT", "DOUBLE", "HALF"}
    ELSE dt \notin {"HALF", "FLOAT"}

datatype_size(pf, dt) ==
    CASE dt = "FLOAT" -> 4
      [] dt = "DOUBLE" -> 8
      [] dt = "HALF" -> 2

\* make_host_scalar: the `default:` branch throws std::runtime_error
make_host_scalar_throws(pf, dt) ==
    IF pf = "CUDA" THEN dt \notin {"FLOAT", "HALF", "DOUBLE"}
    ELSE dt \notin {"FLOAT", "HALF"}

\* make_host_scalar: float for float and half tensors, double for double ones
make_host_scalar(pf, dt, v) ==
    IF dt \in {"FLOAT", "HALF"} THEN [tag |-> "float", v |-> v]
    ELSE [tag |-> "double", v |-> v]

(***************************************************************************)
(* Backend descriptors and device memory.                                  *)
(***************************************************************************)
\* Content of a device cell that nothing has written yet.  The value is
\* indeterminate: it differs from every value the caller stores and makes
\* every result computed from it indeterminate too.
Uninit == -1

RECURSIVE Offset(_, _, _)
\* Element offset of the logical index ix under `strides` (axes k..n)
Offset(ix, strides, k) ==
    IF k > Len(strides) THEN 0
    ELSE ix[k] * strides[k] + Offset(ix, strides, k + 1)

\* The logical indices of a tensor of the given dims
Indices(dims) ==
    {ix \in [1..Len(dims) -> 0..(MaxDim - 1)] :
        \A k \in 1..Len(dims) : ix[k] < dims[k]}

\* Number of elements spanned by a layout: 1 + the largest offset
Footprint(dims, strides) ==
    1 + Offset([k \in 1..Len(dims) |-> dims[k] - 1], strides, 1)

\* The caller's tensors: descriptor handle i describes the buffer at pointer i.
CallerLayouts ==
    << [dt |-> "FLOAT",  dims |-> <<2, 2>>, strides |-> <<2, 1>>],
       [dt |-> "FLOAT",  dims |-> <<2, 2, 2>>, strides |-> <<4, 1, 2>>],
       [dt |-> "FLOAT",  dims |-> <<2, 3>>, strides |-> <<1, 2>>],
       [dt |-> "HALF",   dims |-> <<2, 2>>, strides |-> <<3, 1>>],
       [dt |-> "DOUBLE", dims |-> <<2, 2>>, strides |-> <<3, 1>>] >>

CallerTensors == 1..Len(CallerLayouts)

InitDescs ==
    [i \in CallerTensors |->
        [dt |-> CallerLayouts[i].dt, dims |-> CallerLayouts[i].dims,
         strides |-> CallerLayouts[i].strides, live |-> TRUE, destroys |-> 0]]

InitBufs ==
    [i \in CallerTensors |->
        [data |-> [o \in 1..Footprint(CallerLayouts[i].dims,
                                      CallerLayouts[i].strides) |-> 10 * i + o],
         bytes |-> 0, live |-> TRUE, frees |-> 0]]

\* One backend / allocator call, as recorded in a proxy's log.
Ev(op, sd, src, dd, dst, alpha, beta, ok) ==
    [op |-> op, sd |-> sd, src |-> src, dd |-> dd, dst |-> dst,
     alpha |-> alpha, beta |-> beta, ok |-> ok]

\* get_details: the layout a descriptor handle holds
get_details(ds, desc) ==
    [dt |-> ds[desc].dt, dims |-> ds[desc].dims, strides |-> ds[desc].strides]

\* make_backend_desc: a new handle set up with the given layout
make_backend_desc(ds, my_desc) ==
    [desc |-> Len(ds) + 1,
     descs |-> Append(ds, [dt |-> my_desc.dt, dims |-> my_desc.dims,
                           strides |-> my_desc.strides, live |-> TRUE,
                           destroys |-> 0])]

\* Faulty variant: a new handle is made also for a layout judged packed.
get_packed_desc_always_new(ds, desc) ==
    LET d == get_details(ds, desc)
    IN make_backend_desc(ds, [dt |-> d.dt, dims |-> d.dims,
                              strides |-> get_fully_packed_strides(d.dims)])

\* get_packed_desc: the handle itself when judged packed, else a new handle
\* with the same dims and fully packed strides
get_packed_desc(ds, desc) ==
    LET d == get_details(ds, desc)
    IN IF is_fully_packed(d.dims, d.strides)
       THEN [desc |-> desc, descs |-> ds]
       ELSE make_backend_desc(ds, [dt |-> d.dt, dims |-> d.dims,
                                   strides |-> get_fully_packed_strides(d.dims)])

\* destroy_tensor_descriptor
destroy_tensor_descriptor(ds, desc) ==
    [ds EXCEPT ![desc].live = FALSE, ![desc].destroys = @ + 1]

\* allocate: mem_size = dims[0] * strides[0] * datatype_size(dt), then
\* DeviceAllocate.  datatype_size throws before the allocation; alloc_ok is the
\* allocator's status.
allocate(pf, ds, bs, desc, alloc_ok) ==
    LET d == get_details(ds, desc)
    IN IF datatype_size_throws(pf, d.dt) \/ ~alloc_ok
       THEN [threw |-> TRUE, data |-> 0, dt |-> d.dt, bufs |-> bs]
       ELSE LET mem_size == d.dims[1] * d.strides[1] * datatype_size(pf, d.dt)
                elems == mem_size \div datatype_size(pf, d.dt)
            IN [threw |-> FALSE, data |-> Len(bs) + 1, dt |-> d.dt,
                bufs |-> Append(bs, [data |-> [o \in 1..elems |-> Uninit],
                                     bytes |-> mem_size, live |-> TRUE,
                                     frees |-> 0])]

\* DeviceFree: the buffer goes back to the allocator.  A DeviceFree that
\* reports an error is fatal to the process and ends the behaviour; no such
\* step is part of the model.
DeviceFree(bs, ptr) ==
    [bs EXCEPT ![ptr].live = FALSE, ![ptr].frees = @ + 1]

\* One element of the transform: alpha * s + beta * d; d is not read when
\* beta is zero, and an unwritten operand makes the result unwritten.
Blend(alpha, s, beta, d) ==
    IF beta = 0
    THEN (IF s = Uninit THEN Uninit ELSE alpha * s)
    ELSE (IF s = Uninit \/ d = Uninit THEN Uninit ELSE alpha * s + beta * d)

\* The backend copy-transform: tgt = alpha * src + beta * tgt at every logical
\* index, each side addressed through its own strides.
transform_tensor(alpha, src_l, src, beta, tgt_l, tgt) ==
    [o \in 1..Len(tgt) |->
        LET hits == {ix \in Indices(tgt_l.dims) :
                        Offset(ix, tgt_l.strides, 1) + 1 = o}
        IN IF hits = {} THEN tgt[o]
           ELSE LET ix == CHOOSE ix \in hits : TRUE
                IN Blend(alpha.v, src[Offset(ix, src_l.strides, 1) + 1],
                         beta.v, tgt[o])]

\* copy_tensor: cudnnTransformTensor on CUDA; on ROCm do_gpu_tensor_repack for
\* float tensors and std::runtime_error("Only float.") for every other type.
\* backend_ok is the status the backend reports.
copy_tensor(pf, ds, bs, alpha, src_desc, src_data, beta, tgt_desc, tgt_data, backend_ok) ==
    LET s == get_details(ds, src_desc)
        t == get_details(ds, tgt_desc)
        throws == \/ ~backend_ok
                  \/ pf = "ROCM" /\ s.dt # "FLOAT"
    IN IF throws THEN [threw |-> TRUE, bufs |-> bs]
       ELSE [threw |-> FALSE,
             bufs |-> [bs EXCEPT ![tgt_data].data =
                          transform_tensor(alpha, s, bs[src_data].data,
                                           beta, t, @)]]

(***************************************************************************)
(* Proxies.                                                                *)
(***************************************************************************)
ProxyIds == {"p", "q"}
Betas == {0, 1}

\* A proxy object: the members of the class, then the history of the calls
\* that made it (arguments, what its constructor created, how its destructor
\* ran).  st is "none" before construction, "live" after a constructor
\* returned, "failed" after a constructor threw, "destroyed" after the
\* destructor ran.
NoProxy ==
    [st |-> "none", kind |-> "none", with_buf |-> FALSE,
     m_unpacked_desc |-> 0, m_packed_desc |-> 0,
     m_unpacked_data |-> 0, m_packed_data |-> 0, m_dt |-> "default",
     arg_desc |-> 0, arg_data |-> 0, force |-> FALSE, beta |-> 0,
     alloc_buf |-> 0, made_desc |-> 0,
     dtor_uncaught |-> 0, dtor_threw |-> FALSE, writes |-> 0]

\* The member initialisers shared by the four constructors, followed by
\*   if (force || do_pack_unpack()) m_packed_desc = get_packed_desc(unpacked_desc);
\* `packing` is the value of the condition.
init_members(ds, kind, with_buf, desc, data, beta, force, packing) ==
    LET pd == IF packing THEN get_packed_desc(ds, desc)
              ELSE [desc |-> desc, descs |-> ds]
        made == pd.desc # desc
    IN [proxy |-> [NoProxy EXCEPT !.kind = kind, !.with_buf = with_buf,
                       !.m_unpacked_desc = desc, !.m_packed_desc = pd.desc,
                       !.m_unpacked_data = data, !.m_packed_data = 0,
                       !.arg_desc = desc, !.arg_data = data,
                       !.force = force, !.beta = beta,
                       !.made_desc = IF made THEN pd.desc ELSE 0],
        descs |-> pd.descs,
        events |-> IF made
                   THEN <<Ev("make_desc", 0, 0, pd.desc, 0, 0, 0, TRUE)>>
                   ELSE <<>>]

\* Faulty variant: the descriptor-only constructor allocates a packed buffer
\* whenever it made a packed descriptor.
PackedTensorProxy_desc_ctor_allocating(ds, bs, kind, desc, force, packing) ==
    LET m == init_members(ds, kind, FALSE, desc, 0, 0, force, packing)
        a == allocate("CUDA", m.descs, bs, m.proxy.m_packed_desc, TRUE)
    IN IF m.proxy.made_desc = 0
       THEN [proxy |-> [m.proxy EXCEPT !.st = "live"], descs |-> m.descs,
             bufs |-> bs, events |-> m.events, threw |-> FALSE]
       ELSE [proxy |-> [m.proxy EXCEPT !.st = "live", !.m_packed_data = a.data,
                                       !.alloc_buf = a.data],
             descs |-> m.descs, bufs |-> a.bufs,
             events |-> m.events \o
                 <<Ev("alloc", 0, 0, m.proxy.m_packed_desc, a.data, 0, 0, TRUE)>>,
             threw |-> FALSE]

\* PackedTensorReadProxy(TensorDescriptor_t, bool) and
\* PackedTensorWriteProxy(TensorDescriptor_t, bool): descriptor only.
PackedTensorProxy_desc_ctor(ds, bs, kind, desc, force, packing) ==
    LET m == init_members(ds, kind, FALSE, desc, 0, 0, force, packing)
    IN [proxy |-> [m.proxy EXCEPT !.st = "live"], descs |-> m.descs,
        bufs |-> bs, events |-> m.events, threw |-> FALSE]

\* Faulty variant: the scale factors of the copy-in are exchanged (0.0, 1.0).
copy_in_scales_exchanged(pf, ds, bs, px, dt, backend_ok) ==
    IF make_host_scalar_throws(pf, dt)
    THEN [threw |-> TRUE, bufs |-> bs, events |-> <<>>]
    ELSE LET alpha == make_host_scalar(pf, dt, 0)
             beta == make_host_scalar(pf, dt, 1)
             c == copy_tensor(pf, ds, bs, alpha, px.m_unpacked_desc,
                              px.m_unpacked_data, beta, px.m_packed_desc,
                              px.m_packed_data, backend_ok)
         IN [threw |-> c.threw, bufs |-> c.bufs,
             events |-> <<Ev("copy", px.m_unpacked_desc, px.m_unpacked_data,
                             px.m_packed_desc, px.m_packed_data,
                             alpha.v, beta.v, ~c.threw)>>]

\* The copy-in both buffer constructors make:
\*   copy_tensor(handle, make_host_scalar(dt, 1.0), m_unpacked_desc,
\*               m_unpacked_data, make_host_scalar(dt, 0.0), m_packed_desc,
\*               m_packed_data)
copy_in(pf, ds, bs, px, dt, backend_ok) ==
    IF make_host_scalar_throws(pf, dt)
    THEN [threw |-> TRUE, bufs |-> bs, events |-> <<>>]
    ELSE LET alpha == make_host_scalar(pf, dt, 1)
             beta == make_host_scalar(pf, dt, 0)
             c == copy_tensor(pf, ds, bs, alpha, px.m_unpacked_desc,
                              px.m_unpacked_data, beta, px.m_packed_desc,
                              px.m_packed_data, backend_ok)
         IN [threw |-> c.threw, bufs |-> c.bufs,
             events |-> <<Ev("copy", px.m_unpacked_desc, px.m_unpacked_data,
                             px.m_packed_desc, px.m_packed_data,
                             alpha.v, beta.v, ~c.threw)>>]

\* PackedTensorReadProxy(Handle_t, TensorDescriptor_t, void const*, bool)
PackedTensorReadProxy_ctor(pf, ds, bs, desc, data, force, packing, alloc_ok, backend_ok) ==
    LET m == init_members(ds, "read", TRUE, desc, data, 0, force, packing)
        px == m.proxy
    IN IF px.m_unpacked_desc = px.m_packed_desc
       THEN [proxy |-> [px EXCEPT !.st = "live", !.m_packed_data = data],
             descs |-> m.descs, bufs |-> bs, events |-> m.events,
             threw |-> FALSE]
       ELSE LET a == allocate(pf, m.descs, bs, px.m_packed_desc, alloc_ok)
            IN IF a.threw
               THEN [proxy |-> [px EXCEPT !.st = "failed"],
                     descs |-> m.descs, bufs |-> bs, events |-> m.events,
                     threw |-> TRUE]
               ELSE LET py == [px EXCEPT !.m_packed_data = a.data,
                                         !.alloc_buf = a.data]
                        c == copy_in(pf, m.descs, a.bufs, py, a.dt, backend_ok)
                    IN [proxy |-> [py EXCEPT !.st = IF c.threw THEN "failed"
                                                    ELSE "live"],
                        descs |-> m.descs, bufs |-> c.bufs,
                        events |-> m.events \o
                            <<Ev("alloc", 0, 0, py.m_packed_desc, a.data, 0, 0, TRUE)>>
                            \o c.events,
                        threw |-> c.threw]

\* Faulty variant: the copy-in is made when beta is zero.
seeds_packed_buffer_flipped(beta) == beta = 0

\* if (beta != 0.): the write constructor copies the unpacked contents in
seeds_packed_buffer(beta) == beta # 0

\* PackedTensorWriteProxy(Handle_t, TensorDescriptor_t, void*, double, bool)
PackedTensorWriteProxy_ctor(pf, ds, bs, desc, data, beta, force, packing, alloc_ok, backend_ok) ==
    LET m == init_members(ds, "write", TRUE, desc, data, beta, force, packing)
        px == m.proxy
    IN IF px.m_unpacked_desc = px.m_packed_desc
       THEN [proxy |-> [px EXCEPT !.st = "live", !.m_packed_data = data],
             descs |-> m.descs, bufs |-> bs, events |-> m.events,
             threw |-> FALSE]
       ELSE LET a == allocate(pf, m.descs, bs, px.m_packed_desc, alloc_ok)
            IN IF a.threw
               THEN [proxy |-> [px EXCEPT !.st = "failed"],
                     descs |-> m.descs, bufs |-> bs, events |-> m.events,
                     threw |-> TRUE]
               ELSE LET py == [px EXCEPT !.m_packed_data = a.data,
                                         !.m_dt = a.dt, !.alloc_buf = a.data]
                        c == IF seeds_packed_buffer(beta)
                             THEN copy_in(pf, m.descs, a.bufs, py, py.m_dt,
                                          backend_ok)
                             ELSE [threw |-> FALSE, bufs |-> a.bufs,
                                   events |-> <<>>]
                    IN [proxy |-> [py EXCEPT !.st = IF c.threw THEN "failed"
                                                    ELSE "live"],
                        descs |-> m.descs, bufs |-> c.bufs,
                        events |-> m.events \o
                            <<Ev("alloc", 0, 0, py.m_packed_desc, a.data, 0, 0, TRUE)>>
                            \o c.events,
                        threw |-> c.threw]

\* Faulty variant: the packed descriptor is destroyed even when it is the
\* caller's descriptor.
owns_packed_desc_always(px) == TRUE

\* if (m_unpacked_desc != m_packed_desc), in both destructors
owns_packed_desc(px) == px.m_unpacked_desc # px.m_packed_desc

\* PackedTensorReadProxy::~PackedTensorReadProxy
PackedTensorReadProxy_dtor(ds, bs, px) ==
    LET owns == px.m_packed_data # px.m_unpacked_data /\ px.m_packed_data # 0
        bs1 == IF owns THEN DeviceFree(bs, px.m_packed_data) ELSE bs
        ev1 == IF owns
               THEN <<Ev("free", 0, 0, 0, px.m_packed_data, 0, 0, TRUE)>>
               ELSE <<>>
        p1 == IF owns
              THEN [px EXCEPT !.m_packed_data = 0, !.m_unpacked_data = 0]
              ELSE px
        differ == owns_packed_desc(p1)
        ds1 == IF differ THEN destroy_tensor_descriptor(ds, p1.m_packed_desc)
               ELSE ds
        ev2 == IF differ
               THEN <<Ev("destroy_desc", 0, 0, p1.m_packed_desc, 0, 0, 0, TRUE)>>
               ELSE <<>>
    IN [proxy |-> [p1 EXCEPT !.st = "destroyed", !.m_packed_desc = 0,
                             !.m_unpacked_desc = 0],
        descs |-> ds1, bufs |-> bs1, events |-> ev1 \o ev2, threw |-> FALSE]

\* Faulty variant: the write-back is never made.
write_back_allowed_never(unc) == FALSE

\* Faulty variant: the write-back is made whatever std::uncaught_exceptions() says.
write_back_allowed_always(unc) == TRUE

\* if (!std::uncaught_exceptions())
write_back_allowed(unc) == unc = 0

\* Faulty variant: source and destination of the write-back are exchanged.
copy_out_reversed(pf, ds, bs, px, backend_ok) ==
    IF make_host_scalar_throws(pf, px.m_dt)
    THEN [threw |-> TRUE, bufs |-> bs, events |-> <<>>]
    ELSE LET alpha == make_host_scalar(pf, px.m_dt, 1)
             beta == make_host_scalar(pf, px.m_dt, 0)
             c == copy_tensor(pf, ds, bs, alpha, px.m_unpacked_desc,
                              px.m_unpacked_data, beta, px.m_packed_desc,
                              px.m_packed_data, backend_ok)
         IN [threw |-> c.threw, bufs |-> c.bufs,
             events |-> <<Ev("copy", px.m_unpacked_desc, px.m_unpacked_data,
                             px.m_packed_desc, px.m_packed_data,
                             alpha.v, beta.v, ~c.threw)>>]

\* The write-back the write destructor makes:
\*   copy_tensor(m_handle, make_host_scalar(m_dt, 1.0), m_packed_desc,
\*               m_packed_data, make_host_scalar(m_dt, 0.0), m_unpacked_desc,
\*               m_unpacked_data)
copy_out(pf, ds, bs, px, backend_ok) ==
    IF make_host_scalar_throws(pf, px.m_dt)
    THEN [threw |-> TRUE, bufs |-> bs, events |-> <<>>]
    ELSE LET alpha == make_host_scalar(pf, px.m_dt, 1)
             beta == make_host_scalar(pf, px.m_dt, 0)
             c == copy_tensor(pf, ds, bs, alpha, px.m_packed_desc,
                              px.m_packed_data, beta, px.m_unpacked_desc,
                              px.m_unpacked_data, backend_ok)
         IN [threw |-> c.threw, bufs |-> c.bufs,
             events |-> <<Ev("copy", px.m_packed_desc, px.m_packed_data,
                             px.m_unpacked_desc, px.m_unpacked_data,
                             alpha.v, beta.v, ~c.threw)>>]

\* Faulty variant: the packed buffer is freed before the write-back.
PackedTensorWriteProxy_dtor_free_first(pf, ds, bs, px, unc, backend_ok) ==
    LET owns == px.m_unpacked_data # px.m_packed_data /\ px.m_packed_data # 0
        bs0 == IF owns THEN DeviceFree(bs, px.m_packed_data) ELSE bs
        ev0 == IF owns
               THEN <<Ev("free", 0, 0, 0, px.m_packed_data, 0, 0, TRUE)>>
               ELSE <<>>
        c == IF owns /\ write_back_allowed(unc)
             THEN copy_out(pf, ds, bs0, px, backend_ok)
             ELSE [threw |-> FALSE, bufs |-> bs0, events |-> <<>>]
        p0 == [px EXCEPT !.dtor_uncaught = unc]
    IN IF c.threw
       THEN [proxy |-> [p0 EXCEPT !.st = "destroyed", !.dtor_threw = TRUE],
             descs |-> ds, bufs |-> c.bufs, events |-> ev0 \o c.events,
             threw |-> TRUE]
       ELSE LET p1 == IF owns
                      THEN [p0 EXCEPT !.m_packed_data = 0, !.m_unpacked_data = 0]
                      ELSE p0
                differ == owns_packed_desc(p1)
                ds1 == IF differ
                       THEN destroy_tensor_descriptor(ds, p1.m_packed_desc)
                       ELSE ds
                ev2 == IF differ
                       THEN <<Ev("destroy_desc", 0, 0, p1.m_packed_desc, 0, 0, 0, TRUE)>>
                       ELSE <<>>
            IN [proxy |-> [p1 EXCEPT !.st = "destroyed", !.m_packed_desc = 0,
                                     !.m_unpacked_desc = 0],
                descs |-> ds1, bufs |-> c.bufs,
                events |-> ev0 \o c.events \o ev2, threw |-> FALSE]

\* PackedTensorWriteProxy::~PackedTensorWriteProxy.  When copy_tensor throws,
\* the exception leaves the destructor at once: the statements after the call
\* are not executed.
PackedTensorWriteProxy_dtor(pf, ds, bs, px, unc, backend_ok) ==
    LET owns == px.m_unpacked_data # px.m_packed_data /\ px.m_packed_data # 0
        c == IF owns /\ write_back_allowed(unc)
             THEN copy_out(pf, ds, bs, px, backend_ok)
             ELSE [threw |-> FALSE, bufs |-> bs, events |-> <<>>]
        p0 == [px EXCEPT !.dtor_uncaught = unc]
    IN IF c.threw
       THEN [proxy |-> [p0 EXCEPT !.st = "destroyed", !.dtor_threw = TRUE],
             descs |-> ds, bufs |-> c.bufs, events |-> c.events,
             threw |-> TRUE]
       ELSE LET bs1 == IF owns THEN DeviceFree(c.bufs, px.m_packed_data)
                       ELSE c.bufs
                ev1 == IF owns
                       THEN <<Ev("free", 0, 0, 0, px.m_packed_data, 0, 0, TRUE)>>
                       ELSE <<>>
                p1 == IF owns
                      THEN [p0 EXCEPT !.m_packed_data = 0, !.m_unpacked_data = 0]
                      ELSE p0
                differ == owns_packed_desc(p1)
                ds1 == IF differ
                       THEN destroy_tensor_descriptor(ds, p1.m_packed_desc)
                       ELSE ds
                ev2 == IF differ
                       THEN <<Ev("destroy_desc", 0, 0, p1.m_packed_desc, 0, 0, 0, TRUE)>>
                       ELSE <<>>
            IN [proxy |-> [p1 EXCEPT !.st = "destroyed", !.m_packed_desc = 0,
                                     !.m_unpacked_desc = 0],
                descs |-> ds1, bufs |-> bs1,
                events |-> c.events \o ev1 \o ev2, threw |-> FALSE]

(***************************************************************************)
(* Specification Spec: the proxies.                                        *)
(***************************************************************************)
MainEnvVals == {Unset, <<"1">>}
NoEnvSeen == <<"none">>

PolicyInit(envs) ==
    /\ platform \in Platforms
    /\ env \in envs
    /\ val_init = FALSE
    /\ val = FALSE
    /\ getenv_calls = 0
    /\ env_seen = NoEnvSeen

DriverIdle ==
    /\ queries = 0
    /\ last_query = <<>>
    /\ first_query = <<>>
    /\ t_pc = [t \in ThreadIds |-> "idle"]
    /\ t_ret = [t \in ThreadIds |-> <<>>]
    /\ val_guard = "free"

LayoutIdle ==
    /\ in_dims = <<1>>
    /\ in_strides = <<1>>
    /\ in_dt = "FLOAT"
    /\ out_size = <<>>
    /\ out_packed = <<>>
    /\ out_strides = <<>>

ProxyInit ==
    /\ descs = InitDescs
    /\ bufs = InitBufs
    /\ proxies = [x \in ProxyIds |-> NoProxy]
    /\ log = [x \in ProxyIds |-> <<>>]
    /\ uncaught = 0

Init ==
    /\ PolicyInit(MainEnvVals)
    /\ DriverIdle
    /\ LayoutIdle
    /\ ProxyInit

\* Faulty variant: the force flag alone decides, the static is not consulted.
packing_condition_verbatim(force, r) ==
    /\ r = force
    /\ UNCHANGED <<val_init, val, getenv_calls, env_seen>>

\* force || do_pack_unpack(): do_pack_unpack is not called when force is true
packing_condition(force, r) ==
    IF force
    THEN /\ r = TRUE
         /\ UNCHANGED <<val_init, val, getenv_calls, env_seen>>
    ELSE do_pack_unpack(r)

\* Proxy q is the one constructed second.
CanConstruct(x) ==
    /\ proxies[x].st = "none"
    /\ x = "q" => proxies["p"].st # "none"

\* The effect of a constructor or destructor call on the state.
Apply(x, out) ==
    /\ proxies' = [proxies EXCEPT ![x] = out.proxy]
    /\ descs' = out.descs
    /\ bufs' = out.bufs
    /\ log' = [log EXCEPT ![x] = @ \o out.events]
    /\ uncaught' = IF out.threw THEN uncaught + 1 ELSE uncaught

ConstructReadDesc(x) ==
    /\ CanConstruct(x)
    /\ \E desc \in CallerTensors, force \in BOOLEAN, r \in BOOLEAN :
          /\ packing_condition(force, r)
          /\ Apply(x, PackedTensorProxy_desc_ctor(descs, bufs, "read", desc,
                                                  force, r))
    /\ UNCHANGED <<platform, env, driver_vars, layout_vars>>

ConstructWriteDesc(x) ==
    /\ CanConstruct(x)
    /\ \E desc \in CallerTensors, force \in BOOLEAN, r \in BOOLEAN :
          /\ packing_condition(force, r)
          /\ Apply(x, PackedTensorProxy_desc_ctor(descs, bufs, "write", desc,
                                                  force, r))
    /\ UNCHANGED <<platform, env, driver_vars, layout_vars>>

ConstructRead(x) ==
    /\ CanConstruct(x)
    /\ \E desc \in CallerTensors, force \in BOOLEAN, r \in BOOLEAN,
          alloc_ok \in BOOLEAN, backend_ok \in BOOLEAN :
          /\ packing_condition(force, r)
          /\ Apply(x, PackedTensorReadProxy_ctor(platform, descs, bufs, desc,
                          desc, force, r, alloc_ok, backend_ok))
    /\ UNCHANGED <<platform, env, driver_vars, layout_vars>>

ConstructWrite(x) ==
    /\ CanConstruct(x)
    /\ \E desc \in CallerTensors, beta \in Betas, force \in BOOLEAN,
          r \in BOOLEAN, alloc_ok \in BOOLEAN, backend_ok \in BOOLEAN :
          /\ packing_condition(force, r)
          /\ Apply(x, PackedTensorWriteProxy_ctor(platform, descs, bufs, desc,
                          desc, beta, force, r, alloc_ok, backend_ok))
    /\ UNCHANGED <<platform, env, driver_vars, layout_vars>>

DestroyRead(x) ==
    /\ proxies[x].st = "live"
    /\ proxies[x].kind = "read"
    /\ Apply(x, PackedTensorReadProxy_dtor(descs, bufs, proxies[x]))
    /\ UNCHANGED <<policy_vars, driver_vars, layout_vars>>

DestroyWrite(x) ==
    /\ proxies[x].st = "live"
    /\ proxies[x].kind = "write"
    /\ \E backend_ok \in BOOLEAN :
          Apply(x, PackedTensorWriteProxy_dtor(platform, descs, bufs,
                       proxies[x], uncaught, backend_ok))
    /\ UNCHANGED <<policy_vars, driver_vars, layout_vars>>

\* The value the caller's operation writes at logical index ix.
Written(dims, ix) == 100 + Offset(ix, get_fully_packed_strides(dims), 1)

\* The caller's backend operation writes the whole packed view of a write
\* proxy, through the packed descriptor.
Compute(x) ==
    /\ proxies[x].st = "live"
    /\ proxies[x].kind = "write"
    /\ proxies[x].with_buf
    /\ proxies[x].writes = 0
    /\ LET px == proxies[x]
           l == get_details(descs, px.m_packed_desc)
       IN /\ bufs' = [bufs EXCEPT ![px.m_packed_data].data =
                 [o \in 1..Len(@) |->
                     LET hits == {ix \in Indices(l.dims) :
                                     Offset(ix, l.strides, 1) + 1 = o}
                     IN IF hits = {} THEN @[o]
                        ELSE Written(l.dims, CHOOSE ix \in hits : TRUE)]]
          /\ log' = [log EXCEPT ![x] = Append(@,
                 Ev("compute", 0, 0, px.m_packed_desc, px.m_packed_data, 0, 0, TRUE))]
    /\ proxies' = [proxies EXCEPT ![x].writes = 1]
    /\ UNCHANGED <<policy_vars, driver_vars, layout_vars, descs, uncaught>>

\* Some code of the caller throws: one more exception is in flight.
Throw ==
    /\ uncaught < MaxUncaught
    /\ uncaught' = uncaught + 1
    /\ UNCHANGED <<policy_vars, driver_vars, layout_vars, descs, bufs,
                   proxies, log>>

\* A handler is entered: one exception less is in flight.
Catch ==
    /\ uncaught > 0
    /\ uncaught' = uncaught - 1
    /\ UNCHANGED <<policy_vars, driver_vars, layout_vars, descs, bufs,
                   proxies, log>>

Next ==
    \/ \E x \in ProxyIds : ConstructReadDesc(x)
    \/ \E x \in ProxyIds : ConstructWriteDesc(x)
    \/ \E x \in ProxyIds : ConstructRead(x)
    \/ \E x \in ProxyIds : ConstructWrite(x)
    \/ \E x \in ProxyIds : DestroyRead(x)
    \/ \E x \in ProxyIds : DestroyWrite(x)
    \/ \E x \in ProxyIds : Compute(x)
    \/ Throw
    \/ Catch

Spec == Init /\ [][Next]_vars

(***************************************************************************)
(* Specification SpecPolicy: do_pack_unpack() under changes of the         *)
(* environment variable.                                                   *)
(***************************************************************************)
PolicyDriverInit ==
    /\ PolicyInit(EnvVals)
    /\ DriverIdle
    /\ LayoutIdle
    /\ ProxyInit

\* setenv("H2_DISTCONV_FORCE_PACKED", v, 1)
SetEnv ==
    /\ \E v \in EnvStrings : env' = v
    /\ UNCHANGED <<platform, val_init, val, getenv_calls, env_seen,
                   driver_vars, layout_vars, proxy_vars>>

\* unsetenv("H2_DISTCONV_FORCE_PACKED")
UnsetEnv ==
    /\ env # Unset
    /\ env' = Unset
    /\ UNCHANGED <<platform, val_init, val, getenv_calls, env_seen,
                   driver_vars, layout_vars, proxy_vars>>

\* One call of do_pack_unpack()
Query ==
    /\ queries < MaxQueries
    /\ \E r \in BOOLEAN :
          /\ do_pack_unpack(r)
          /\ last_query' = <<r>>
          /\ first_query' = IF queries = 0 THEN <<r>> ELSE first_query
    /\ queries' = queries + 1
    /\ UNCHANGED <<platform, env, thread_vars, layout_vars, proxy_vars>>

PolicyNext == SetEnv \/ UnsetEnv \/ Query

SpecPolicy == PolicyDriverInit /\ [][PolicyNext]_vars

(***************************************************************************)
(* Specification SpecLayout: the layout functions on bounded inputs.       *)
(***************************************************************************)
DimSeqs == UNION {[1..n -> 1..MaxDim] : n \in 1..MaxNDims}
StrideSeqs == UNION {[1..n -> 1..MaxStride] : n \in 1..MaxNDims}

LayoutInit ==
    /\ in_dims \in DimSeqs
    /\ in_strides \in {s \in StrideSeqs : Len(s) = Len(in_dims)}
    /\ in_dt = "FLOAT"
    /\ out_size = <<>>
    /\ out_packed = <<>>
    /\ out_strides = <<>>
    /\ PolicyInit({Unset})
    /\ platform = "CUDA"
    /\ DriverIdle
    /\ ProxyInit

Call_is_fully_packed ==
    /\ out_packed = <<>>
    /\ out_packed' = <<is_fully_packed(in_dims, in_strides)>>
    /\ UNCHANGED <<in_dims, in_strides, in_dt, out_size, out_strides, policy_vars,
                   driver_vars, proxy_vars>>

Call_get_fully_packed_strides ==
    /\ out_strides = <<>>
    /\ out_strides' = get_fully_packed_strides(in_dims)
    /\ UNCHANGED <<in_dims, in_strides, in_dt, out_size, out_packed, policy_vars,
                   driver_vars, proxy_vars>>

LayoutNext == Call_is_fully_packed \/ Call_get_fully_packed_strides

SpecLayout == LayoutInit /\ [][LayoutNext]_vars

(***************************************************************************)
(* Properties.                                                             *)
(***************************************************************************)
\* Positions of proxy x's log that hold a call of the given kind
Calls(x, op) == {i \in 1..Len(log[x]) : log[x][i].op = op}

\* A successfully constructed proxy that allocated its packed buffer
Owned(x) ==
    /\ proxies[x].st \in {"live", "destroyed"}
    /\ proxies[x].alloc_buf # 0

\* Write-back calls of proxy x: copy-transforms that read its packed buffer
WriteBacks(x) ==
    {i \in Calls(x, "copy") : log[x][i].src = proxies[x].alloc_buf}

\* Was the source tensor of proxy x judged packed
SourceJudgedPacked(x) ==
    is_fully_packed(CallerLayouts[proxies[x].arg_desc].dims,
                    CallerLayouts[proxies[x].arg_desc].strides)

\* An owned write proxy whose destructor ran while an exception was in flight
DestroyedUnwinding(x) ==
    /\ proxies[x].kind = "write"
    /\ proxies[x].st = "destroyed"
    /\ Owned(x)
    /\ proxies[x].dtor_uncaught > 0

\* C1: an owned write proxy destroyed while an exception is in flight issues
\* no copy-transform from its packed buffer and frees the packed buffer
\* exactly once.
C1_UnwindSuppression ==
    \A x \in ProxyIds :
        DestroyedUnwinding(x) =>
            /\ WriteBacks(x) = {}
            /\ Cardinality({i \in Calls(x, "free") :
                               log[x][i].dst = proxies[x].alloc_buf}) = 1
            /\ bufs[proxies[x].alloc_buf].frees = 1
            /\ ~bufs[proxies[x].alloc_buf].live

C1_Witness ==
    \E x \in ProxyIds :
        /\ DestroyedUnwinding(x)
        /\ proxies[x].writes = 1
        /\ bufs[proxies[x].alloc_buf].frees = 1

\* C2: after the destructor of an owned write proxy has run, the packed
\* buffer has been freed and the synthetic packed descriptor destroyed,
\* whether the write-back succeeded, reported an error or was skipped.
C2_DestructionAlwaysReleases ==
    \A x \in ProxyIds :
        (proxies[x].kind = "write" /\ proxies[x].st = "destroyed" /\ Owned(x)) =>
            /\ bufs[proxies[x].alloc_buf].frees = 1
            /\ ~bufs[proxies[x].alloc_buf].live
            /\ descs[proxies[x].made_desc].destroys = 1
            /\ ~descs[proxies[x].made_desc].live

\* C3: once a buffer constructor has failed, no buffer it allocated is
\* still outstanding.
C3_FailedConstructionLeavesNoAllocation ==
    \A x \in ProxyIds :
        (proxies[x].st = "failed" /\ proxies[x].alloc_buf # 0) =>
            ~bufs[proxies[x].alloc_buf].live

\* C4: a proxy over a source judged packed never fails to construct, makes
\* no descriptor, allocates nothing and copies nothing; while it lives its
\* packed descriptor and packed buffer are the caller's; its destruction
\* issues no copy, no free and destroys no descriptor.
C4_PackedSourceAliases ==
    \A x \in ProxyIds :
        (proxies[x].st # "none" /\ SourceJudgedPacked(x)) =>
            /\ proxies[x].st # "failed"
            /\ proxies[x].made_desc = 0
            /\ proxies[x].alloc_buf = 0
            /\ \A i \in 1..Len(log[x]) : log[x][i].op = "compute"
            /\ proxies[x].st = "live" =>
                  /\ proxies[x].m_packed_desc = proxies[x].arg_desc
                  /\ proxies[x].m_packed_data = proxies[x].arg_data
            /\ descs[proxies[x].arg_desc].live
            /\ descs[proxies[x].arg_desc].destroys = 0
            /\ proxies[x].with_buf =>
                  /\ bufs[proxies[x].arg_data].live
                  /\ bufs[proxies[x].arg_data].frees = 0

C4_Witness ==
    /\ \A x \in ProxyIds :
          /\ proxies[x].st = "destroyed"
          /\ proxies[x].with_buf
          /\ SourceJudgedPacked(x)
    /\ proxies["p"].kind = "read" /\ proxies["p"].force
    /\ proxies["q"].kind = "write" /\ ~proxies["q"].force
    /\ val_init /\ val

\* Was packing attempted for proxy x: for a source not judged packed,
\* get_packed_desc makes a descriptor exactly when it is called.
PackingAttempted(x) == proxies[x].made_desc # 0

\* C5 as stated: the force flag decides verbatim, so force = false leaves the
\* proxy aliased whatever the process-wide decision is.
C5_ForceDecidesVerbatim ==
    \A x \in ProxyIds :
        (proxies[x].st # "none" /\ ~SourceJudgedPacked(x)) =>
            (PackingAttempted(x) <=> proxies[x].force)

\* C5 amended: packing is attempted exactly when force is true or the
\* process-wide decision is true; with force = false the process-wide
\* decision has been computed and decides.
C5_ForceOrDecision ==
    \A x \in ProxyIds :
        (proxies[x].st # "none" /\ ~SourceJudgedPacked(x)) =>
            /\ PackingAttempted(x) <=> (proxies[x].force \/ (val_init /\ val))
            /\ ~proxies[x].force => val_init

C5_Witness ==
    \E x \in ProxyIds :
        /\ proxies[x].st = "live"
        /\ ~SourceJudgedPacked(x)
        /\ ~proxies[x].force
        /\ val_init /\ val
        /\ PackingAttempted(x)
        /\ proxies[x].alloc_buf # 0

\* C6 as stated: a set variable gives false only for the empty string and
\* for exactly "0", and true for every other value.
C6_FalseOnlyForEmptyOrZero ==
    val_init =>
        val = (IF env_seen = Unset THEN platform_default(platform)
               ELSE env_seen \notin {<<>>, <<"0">>})

\* C6 amended: the decision is the platform default when the variable is
\* unset, false when it is set to the empty string or to any value whose
\* first character is '0', and true for every other value.
C6_FalseForEmptyOrLeadingZero ==
    val_init =>
        /\ env_seen = Unset => val = (platform = "ROCM")
        /\ env_seen = <<>> => ~val
        /\ (env_seen \in EnvStrings /\ env_seen # <<>>) =>
              (val <=> Head(env_seen) # "0")
        /\ queries >= 1 => first_query = <<val>>

C6_Witness ==
    /\ val_init
    /\ env_seen = <<"0", "1">>
    /\ first_query = <<FALSE>>

\* C7: after the first query every query returns the value of the first one
\* and the environment has been read exactly once, whatever was done to the
\* variable in between.
C7_DecisionFrozen ==
    /\ getenv_calls <= 1
    /\ queries >= 1 =>
          /\ val_init
          /\ getenv_calls = 1
          /\ last_query = first_query
          /\ last_query = <<val>>

C7_Witness ==
    /\ queries >= 2
    /\ env # env_seen
    /\ pack_unpack_initializer(platform, env) # val
    /\ last_query = first_query

\* C8 as stated: a layout is judged packed exactly when all its strides are
\* the row-major contiguous strides of its dims.
C8_PackedIffRowMajorStrides ==
    out_packed # <<>> =>
        (out_packed[1] <=> in_strides = get_fully_packed_strides(in_dims))

\* C8 amended: a layout is judged packed exactly when its outermost stride is
\* the outermost row-major contiguous stride; strides that are all row-major
\* contiguous are judged packed, but so is every other layout with that
\* outermost stride.
C8_PackedIffOutermostStride ==
    out_packed # <<>> =>
        /\ out_packed[1] <=>
              in_strides[1] = get_fully_packed_strides(in_dims)[1]
        /\ in_strides = get_fully_packed_strides(in_dims) => out_packed[1]

C8_Witness ==
    /\ in_dims = <<2, 2, 2>>
    /\ in_strides = <<4, 1, 2>>
    /\ out_packed = <<TRUE>>

\* C9: get_fully_packed_strides returns as many strides as there are dims,
\* the last one 1 and each other one the product of the next stride and the
\* next dim.
C9_BackwardRunningProduct ==
    out_strides # <<>> =>
        /\ Len(out_strides) = Len(in_dims)
        /\ out_strides[Len(in_dims)] = 1
        /\ \A i \in 1..(Len(in_dims) - 1) :
              out_strides[i] = out_strides[i + 1] * in_dims[i + 1]

C9_Witness ==
    /\ in_dims = <<2, 3, 4>>
    /\ out_strides = <<12, 4, 1>>

\* The step in which the write constructor with a buffer returns proxy x in
\* the owned state
WriteConstructedOwned(x) ==
    /\ proxies[x].st = "none"
    /\ proxies'[x].st = "live"
    /\ proxies'[x].kind = "write"
    /\ proxies'[x].alloc_buf # 0

\* Do the packed buffer and the source of proxy px hold the same value at
\* every logical index
SameAtEveryIndex(ds, bs, px) ==
    LET src == CallerLayouts[px.arg_desc]
        tgt == get_details(ds, px.made_desc)
    IN \A ix \in Indices(src.dims) :
          bs[px.alloc_buf].data[Offset(ix, tgt.strides, 1) + 1]
              = bs[px.arg_data].data[Offset(ix, src.strides, 1) + 1]

\* C10: when the write constructor returns an owned proxy, it has issued
\* exactly one copy-transform (source to packed buffer, scale-in 1,
\* scale-out 0) and the packed buffer equals the source at every logical
\* index if beta is non-zero, and no copy-transform at all if beta is zero.
C10_AccumulateSeeding ==
    [][\A x \in ProxyIds :
          WriteConstructedOwned(x) =>
              LET px == proxies'[x]
                  copies == {i \in 1..Len(log'[x]) : log'[x][i].op = "copy"}
              IN IF px.beta # 0
                 THEN /\ Cardinality(copies) = 1
                      /\ \A i \in copies :
                            log'[x][i] = Ev("copy", px.arg_desc, px.arg_data,
                                            px.made_desc, px.alloc_buf,
                                            1, 0, TRUE)
                      /\ SameAtEveryIndex(descs', bufs', px)
                 ELSE copies = {}]_vars

C10_Witness ==
    \E x \in ProxyIds :
        /\ proxies[x].st = "live"
        /\ proxies[x].kind = "write"
        /\ proxies[x].alloc_buf # 0
        /\ proxies[x].beta # 0
        /\ proxies[x].writes = 0
        /\ proxies[x].arg_desc = 3
        /\ Calls(x, "copy") # {}
        /\ SameAtEveryIndex(descs, bufs, proxies[x])
        /\ bufs[proxies[x].alloc_buf].data = <<31, 33, 35, 32, 34, 36>>

\* The step in which the destructor of the owned write proxy x runs
WriteDestroyedOwned(x) ==
    /\ proxies[x].st = "live"
    /\ proxies[x].kind = "write"
    /\ proxies[x].alloc_buf # 0
    /\ proxies'[x].st = "destroyed"

\* The step in which the read constructor with a buffer returns proxy x in
\* the owned state
ReadConstructedOwned(x) ==
    /\ proxies[x].st = "none"
    /\ proxies'[x].st = "live"
    /\ proxies'[x].kind = "read"
    /\ proxies'[x].alloc_buf # 0

\* The step in which the destructor of the owned read proxy x runs
ReadDestroyedOwned(x) ==
    /\ proxies[x].st = "live"
    /\ proxies[x].kind = "read"
    /\ proxies[x].alloc_buf # 0
    /\ proxies'[x].st = "destroyed"

\* The calls proxy x issues in the step
Issued(x) == SubSeq(log'[x], Len(log[x]) + 1, Len(log'[x]))

\* C11: when an owned write proxy whose packed buffer was fully written is
\* destroyed with no exception in flight and the write-back reports no
\* error, the destructor has issued exactly one copy-transform, packed to
\* unpacked with scale-in 1 and scale-out 0, and the unpacked buffer holds
\* the written value at every logical index addressed through the original
\* strides, whatever beta was.
C11_RoundTrip ==
    [][\A x \in ProxyIds :
          (/\ WriteDestroyedOwned(x)
           /\ proxies[x].writes = 1
           /\ uncaught = 0
           /\ ~proxies'[x].dtor_threw) =>
              LET px == proxies[x]
                  src == CallerLayouts[px.arg_desc]
                  new == Issued(x)
              IN /\ Cardinality({i \in 1..Len(new) : new[i].op = "copy"}) = 1
                 /\ new[1] = Ev("copy", px.made_desc, px.alloc_buf,
                                px.arg_desc, px.arg_data, 1, 0, TRUE)
                 /\ \A ix \in Indices(src.dims) :
                       bufs'[px.arg_data].data[Offset(ix, src.strides, 1) + 1]
                           = Written(src.dims, ix)]_vars

C11_Witness ==
    \E x \in ProxyIds :
        /\ proxies[x].st = "destroyed"
        /\ proxies[x].kind = "write"
        /\ proxies[x].alloc_buf # 0
        /\ proxies[x].beta = 0
        /\ proxies[x].writes = 1
        /\ proxies[x].dtor_uncaught = 0
        /\ ~proxies[x].dtor_threw
        /\ proxies[x].arg_desc = 3
        /\ WriteBacks(x) # {}
        /\ bufs[3].data = <<100, 103, 101, 104, 102, 105>>

\* C12: when the read constructor returns an owned proxy it has allocated
\* one buffer and issued exactly one copy-transform, source to packed buffer
\* with scale-in 1 and scale-out 0, and the packed buffer equals the source
\* at every logical index; the destructor of an owned read proxy issues one
\* free of that buffer and one destroy of the synthetic descriptor, nothing
\* else, and leaves the source buffer as it was.
C12_ReadMaterialization ==
    [][\A x \in ProxyIds :
          /\ ReadConstructedOwned(x) =>
                LET px == proxies'[x]
                IN /\ log'[x] =
                        << Ev("make_desc", 0, 0, px.made_desc, 0, 0, 0, TRUE),
                           Ev("alloc", 0, 0, px.made_desc, px.alloc_buf, 0, 0, TRUE),
                           Ev("copy", px.arg_desc, px.arg_data, px.made_desc,
                              px.alloc_buf, 1, 0, TRUE) >>
                   /\ Len(bufs') = Len(bufs) + 1
                   /\ bufs'[px.alloc_buf].live
                   /\ SameAtEveryIndex(descs', bufs', px)
          /\ ReadDestroyedOwned(x) =>
                LET px == proxies[x]
                IN /\ Issued(x) =
                        << Ev("free", 0, 0, 0, px.alloc_buf, 0, 0, TRUE),
                           Ev("destroy_desc", 0, 0, px.made_desc, 0, 0, 0, TRUE) >>
                   /\ bufs'[px.alloc_buf].frees = 1
                   /\ ~bufs'[px.alloc_buf].live
                   /\ descs'[px.made_desc].destroys = 1
                   /\ ~descs'[px.made_desc].live
                   /\ bufs'[px.arg_data] = bufs[px.arg_data]]_vars

C12_Witness ==
    \E x \in ProxyIds :
        /\ proxies[x].st = "destroyed"
        /\ proxies[x].kind = "read"
        /\ proxies[x].alloc_buf # 0
        /\ proxies[x].arg_desc = 3
        /\ bufs[proxies[x].alloc_buf].data = <<31, 33, 35, 32, 34, 36>>
        /\ bufs[proxies[x].alloc_buf].frees = 1
        /\ descs[proxies[x].made_desc].destroys = 1
        /\ bufs[3].data = <<31, 32, 33, 34, 35, 36>>

\* C13: the destructor of an owned write proxy attempts the write-back
\* exactly when no exception is in flight; a write-back that reports an
\* error leaves the destructor as one more exception in flight, and a
\* destructor that runs while an exception is in flight raises nothing.
C13_WriteBackErrorSurfaces ==
    [][\A x \in ProxyIds :
          WriteDestroyedOwned(x) =>
              LET copies == {i \in 1..Len(Issued(x)) : Issued(x)[i].op = "copy"}
              IN IF uncaught = 0
                 THEN /\ Cardinality(copies) = 1
                      /\ \A i \in copies :
                            IF Issued(x)[i].ok
                            THEN uncaught' = 0 /\ ~proxies'[x].dtor_threw
                            ELSE uncaught' = 1 /\ proxies'[x].dtor_threw
                 ELSE /\ copies = {}
                      /\ uncaught' = uncaught
                      /\ ~proxies'[x].dtor_threw]_vars

C13_Witness ==
    \E x \in ProxyIds :
        /\ proxies[x].st = "destroyed"
        /\ proxies[x].kind = "write"
        /\ proxies[x].alloc_buf # 0
        /\ proxies[x].dtor_uncaught = 0
        /\ proxies[x].dtor_threw
        /\ uncaught = 1
        /\ \E i \in WriteBacks(x) : ~log[x][i].ok

\* Place of a call of proxy x in the order of its life: descriptor made,
\* buffer allocated, copy-in, the caller's operation, write-back, free,
\* descriptor destroyed
Rank(x, e) ==
    CASE e.op = "make_desc" -> 0
      [] e.op = "alloc" -> 1
      [] e.op = "copy" /\ e.dst = proxies[x].alloc_buf -> 2
      [] e.op = "compute" -> 3
      [] e.op = "copy" /\ e.dst # proxies[x].alloc_buf -> 4
      [] e.op = "free" -> 5
      [] e.op = "destroy_desc" -> 6

\* Positions of proxy x's log that hold a copy-in: a copy-transform into its
\* packed buffer
CopyIns(x) ==
    {i \in Calls(x, "copy") : log[x][i].dst = proxies[x].alloc_buf}

\* C14: for an owned write proxy the calls come in the order allocation,
\* copy-in, the caller's operation on the packed buffer, write-back, free:
\* exactly one allocation, a copy-in exactly when beta is not 0, a
\* write-back exactly when the destructor ran with no exception in flight,
\* and no call touches the packed buffer after it was freed.
C14_LifeOrder ==
    \A x \in ProxyIds :
        (proxies[x].kind = "write" /\ Owned(x)) =>
            /\ \A i, j \in 1..Len(log[x]) :
                  i < j => Rank(x, log[x][i]) <= Rank(x, log[x][j])
            /\ Cardinality(Calls(x, "alloc")) = 1
            /\ Cardinality(CopyIns(x)) = (IF proxies[x].beta # 0 THEN 1 ELSE 0)
            /\ Cardinality(WriteBacks(x)) =
                  (IF proxies[x].st = "destroyed" /\ proxies[x].dtor_uncaught = 0
                   THEN 1 ELSE 0)
            /\ Cardinality(Calls(x, "free")) <= 1
            /\ \A i \in Calls(x, "free") : \A j \in 1..Len(log[x]) :
                  j > i => /\ log[x][j].src # proxies[x].alloc_buf
                           /\ log[x][j].dst # proxies[x].alloc_buf

C14_Witness ==
    \E x \in ProxyIds :
        /\ proxies[x].kind = "write"
        /\ proxies[x].st = "destroyed"
        /\ proxies[x].alloc_buf # 0
        /\ proxies[x].beta # 0
        /\ Len(log[x]) = 7
        /\ [i \in 1..7 |-> log[x][i].op] =
              <<"make_desc", "alloc", "copy", "compute", "copy", "free",
                "destroy_desc">>
        /\ log[x][3].dst = proxies[x].alloc_buf
        /\ log[x][5].src = proxies[x].alloc_buf

\* C15: no proxy ever destroys a descriptor of the caller or frees a buffer
\* of the caller: every caller tensor keeps a live descriptor and a live
\* buffer, and every free and every destroy a proxy issues names an object
\* the proxy created.
C15_BorrowedNeverReleased ==
    /\ \A i \in CallerTensors :
          /\ descs[i].live /\ descs[i].destroys = 0
          /\ bufs[i].live /\ bufs[i].frees = 0
    /\ \A x \in ProxyIds :
          /\ \A i \in Calls(x, "free") :
                log[x][i].dst = proxies[x].alloc_buf /\ log[x][i].dst \notin CallerTensors
          /\ \A i \in Calls(x, "destroy_desc") :
                log[x][i].dd = proxies[x].made_desc /\ log[x][i].dd \notin CallerTensors

\* A proxy in the borrowing state (packed view = caller's tensor) was destroyed
C15_Witness ==
    \E x \in ProxyIds :
        /\ proxies[x].st = "destroyed"
        /\ proxies[x].with_buf
        /\ proxies[x].made_desc = 0
        /\ proxies[x].alloc_buf = 0
        /\ descs[proxies[x].arg_desc].live
        /\ bufs[proxies[x].arg_data].live
        /\ \E y \in ProxyIds :
              /\ proxies[y].st = "destroyed"
              /\ proxies[y].made_desc # 0
              /\ proxies[y].alloc_buf # 0
              /\ ~bufs[proxies[y].alloc_buf].live

\* C16: a proxy made by a descriptor-only constructor never allocates,
\* copies or frees, raises nothing from its destructor, and its destructor
\* destroys the synthetic packed descriptor exactly when the constructor
\* made one.
C16_DescriptorOnly ==
    \A x \in ProxyIds :
        (proxies[x].st \in {"live", "destroyed"} /\ ~proxies[x].with_buf) =>
            /\ proxies[x].alloc_buf = 0
            /\ proxies[x].m_packed_data = 0
            /\ Calls(x, "alloc") = {} /\ Calls(x, "copy") = {}
            /\ Calls(x, "free") = {} /\ Calls(x, "compute") = {}
            /\ ~proxies[x].dtor_threw
            /\ IF proxies[x].st = "destroyed" /\ proxies[x].made_desc # 0
               THEN /\ Cardinality(Calls(x, "destroy_desc")) = 1
                    /\ \A i \in Calls(x, "destroy_desc") :
                          log[x][i].dd = proxies[x].made_desc
                    /\ descs[proxies[x].made_desc].destroys = 1
               ELSE Calls(x, "destroy_desc") = {}

C16_Witness ==
    /\ proxies["p"].st = "destroyed" /\ ~proxies["p"].with_buf
    /\ proxies["p"].made_desc # 0
    /\ descs[proxies["p"].made_desc].destroys = 1
    /\ proxies["q"].st = "destroyed" /\ ~proxies["q"].with_buf
    /\ proxies["q"].made_desc = 0
    /\ Len(bufs) = Cardinality(CallerTensors)

(***************************************************************************)
(* Specification SpecUnwind: proxies that live inside cleanup code.  An    *)
(* unrelated exception is in flight before the first proxy is constructed  *)
(* and stays in flight: std::uncaught_exceptions() is at least 1 in every  *)
(* state.                                                                  *)
(***************************************************************************)
UnwindInit ==
    /\ PolicyInit(MainEnvVals)
    /\ DriverIdle
    /\ LayoutIdle
    /\ descs = InitDescs
    /\ bufs = InitBufs
    /\ proxies = [x \in ProxyIds |-> NoProxy]
    /\ log = [x \in ProxyIds |-> <<>>]
    /\ uncaught = 1

UnwindNext ==
    \/ \E x \in ProxyIds : ConstructReadDesc(x)
    \/ \E x \in ProxyIds : ConstructWriteDesc(x)
    \/ \E x \in ProxyIds : ConstructRead(x)
    \/ \E x \in ProxyIds : ConstructWrite(x)
    \/ \E x \in ProxyIds : DestroyRead(x)
    \/ \E x \in ProxyIds : DestroyWrite(x)
    \/ \E x \in ProxyIds : Compute(x)

SpecUnwind == UnwindInit /\ [][UnwindNext]_vars

\* C17: an owned write proxy constructed, written and destroyed while an
\* unrelated exception is in flight has its write-back skipped although
\* nothing in its own life failed: its destructor issues no copy-transform
\* and raises nothing, the packed buffer is freed once, and the caller's
\* buffer it was to fill is left as it was when no other proxy touched it.
C17_UnrelatedUnwindDropsWrites ==
    \A x \in ProxyIds :
        (proxies[x].kind = "write" /\ proxies[x].st = "destroyed" /\ Owned(x)) =>
            /\ proxies[x].dtor_uncaught >= 1
            /\ WriteBacks(x) = {}
            /\ ~proxies[x].dtor_threw
            /\ bufs[proxies[x].alloc_buf].frees = 1
            /\ ~bufs[proxies[x].alloc_buf].live
            /\ (\A y \in ProxyIds \ {x} : proxies[y].arg_data # proxies[x].arg_data)
                  => bufs[proxies[x].arg_data] = InitBufs[proxies[x].arg_data]

C17_Witness ==
    \E x \in ProxyIds :
        /\ proxies[x].kind = "write"
        /\ proxies[x].st = "destroyed"
        /\ proxies[x].alloc_buf # 0
        /\ proxies[x].writes = 1
        /\ uncaught = 1
        /\ proxies[x].dtor_uncaught = 1
        /\ \A y \in ProxyIds : proxies[y].st # "failed"
        /\ bufs[proxies[x].alloc_buf].data[1] = 100
        /\ ~bufs[proxies[x].alloc_buf].live
        /\ bufs[proxies[x].arg_data] = InitBufs[proxies[x].arg_data]

(***************************************************************************)
(* Specification SpecThreads: several threads inside do_pack_unpack(),     *)
(* one step per access to the static `val`, its guard and the environment. *)
(***************************************************************************)
ThreadsInit ==
    /\ PolicyInit(EnvVals)
    /\ DriverIdle
    /\ LayoutIdle
    /\ ProxyInit

ThreadStep(t, from, to) ==
    /\ t_pc[t] = from
    /\ t_pc' = [t_pc EXCEPT ![t] = to]

\* Control reaches the declaration of `val`
T_Enter(t) ==
    /\ t_pc[t] = "idle"
    /\ IF val_init
       THEN /\ t_pc' = [t_pc EXCEPT ![t] = "return"]
            /\ UNCHANGED val_guard
       ELSE IF static_guard_acquire(val_guard)
            THEN /\ t_pc' = [t_pc EXCEPT ![t] = "getenv"]
                 /\ val_guard' = "busy"
            ELSE /\ t_pc' = [t_pc EXCEPT ![t] = "wait"]
                 /\ UNCHANGED val_guard
    /\ UNCHANGED <<policy_vars, queries, last_query, first_query, t_ret,
                   layout_vars, proxy_vars>>

\* char const* env = std::getenv("H2_DISTCONV_FORCE_PACKED");
T_Getenv(t) ==
    /\ ThreadStep(t, "getenv", "store")
    /\ env_seen' = env
    /\ getenv_calls' = getenv_calls + 1
    /\ UNCHANGED <<platform, env, val_init, val, queries, last_query,
                   first_query, t_ret, val_guard, layout_vars, proxy_vars>>

\* The value of the lambda is stored into `val`
T_Store(t) ==
    /\ ThreadStep(t, "store", "release")
    /\ val' = pack_unpack_initializer(platform, env_seen)
    /\ UNCHANGED <<platform, env, val_init, getenv_calls, env_seen, queries,
                   last_query, first_query, t_ret, val_guard, layout_vars,
                   proxy_vars>>

\* The initialisation is complete: the guard is released
T_Release(t) ==
    /\ ThreadStep(t, "release", "return")
    /\ val_init' = TRUE
    /\ val_guard' = "free"
    /\ UNCHANGED <<platform, env, val, getenv_calls, env_seen, queries,
                   last_query, first_query, t_ret, layout_vars, proxy_vars>>

\* A waiting thread goes on once the initialisation is complete
T_Wake(t) ==
    /\ val_init
    /\ ThreadStep(t, "wait", "return")
    /\ UNCHANGED <<policy_vars, queries, last_query, first_query, t_ret,
                   val_guard, layout_vars, proxy_vars>>

\* return val;
T_Return(t) ==
    /\ ThreadStep(t, "return", "done")
    /\ t_ret' = [t_ret EXCEPT ![t] = <<val>>]
    /\ UNCHANGED <<policy_vars, queries, last_query, first_query, val_guard,
                   layout_vars, proxy_vars>>

ThreadsNext ==
    \/ \E t \in ThreadIds : T_Enter(t)
    \/ \E t \in ThreadIds : T_Getenv(t)
    \/ \E t \in ThreadIds : T_Store(t)
    \/ \E t \in ThreadIds : T_Release(t)
    \/ \E t \in ThreadIds : T_Wake(t)
    \/ \E t \in ThreadIds : T_Return(t)

SpecThreads == ThreadsInit /\ [][ThreadsNext]_vars

\* C18: when several threads call do_pack_unpack() concurrently for the
\* first time, at most one thread is ever inside the initialiser, the
\* environment is read at most once, and every thread that has returned
\* holds the one value the initialiser computed from the environment.
C18_InitialisedOnce ==
    /\ getenv_calls <= 1
    /\ Cardinality({t \in ThreadIds : t_pc[t] \in {"getenv", "store", "release"}}) <= 1
    /\ \A t \in ThreadIds :
          /\ t_pc[t] \in {"return", "done"} => val_init
          /\ t_ret[t] # <<>> =>
                /\ getenv_calls = 1
                /\ t_ret[t] = <<pack_unpack_initializer(platform, env)>>
    /\ \A t, u \in ThreadIds :
          (t_ret[t] # <<>> /\ t_ret[u] # <<>>) => t_ret[t] = t_ret[u]

\* One thread has initialised the static and returned, a second entered
\* while the initialisation was running and still waits, a third is about
\* to return
C18_Witness ==
    \E t, u, w \in ThreadIds :
        /\ t_pc[t] = "done" /\ t_ret[t] = <<TRUE>>
        /\ t_pc[u] = "wait"
        /\ t_pc[w] = "return"
        /\ env = <<"x", "0">>
        /\ getenv_calls = 1

(***************************************************************************)
(* Specification SpecSize: the byte size allocate() computes,              *)
(*     auto const mem_size = dims[0] * strides[0] * datatype_size(dt);     *)
(* dims and strides are vectors of int and datatype_size returns size_t:   *)
(* the first product is an int multiplication, its result is converted to  *)
(* size_t for the second.  The model keeps the two widths in proportion,   *)
(* scaled down: int has IntBits bits, size_t twice as many.                *)
(***************************************************************************)
IntBits == 6
MaxExtent == 8
SizeBits == 2 * IntBits
INT_MAX == 2 ^ (IntBits - 1) - 1
SIZE_MAX == 2 ^ SizeBits - 1

\* The int that holds the low IntBits bits of n (two's complement)
int_wrap(n) ==
    LET low == n % (2 ^ IntBits)
    IN IF low > INT_MAX THEN low - 2 ^ IntBits ELSE low

\* int * int.  A product outside the range of int is undefined behaviour:
\* the build either multiplies in the width of int and keeps the low bits,
\* or multiplies in a wider register and keeps the exact product.
int_mul(a, b) ==
    IF a * b <= INT_MAX THEN {a * b} ELSE {int_wrap(a * b), a * b}

\* Conversion of an int to size_t
to_size_t(n) == n % (2 ^ SizeBits)

\* dims[0] * strides[0] * datatype_size(dt) as allocate() and
\* MyTensorDesc::memory_size() evaluate it: the values it can have
mem_size(pf, dims, strides, dt) ==
    {(to_size_t(p) * datatype_size(pf, dt)) % (2 ^ SizeBits) :
        p \in int_mul(dims[1], strides[1])}

\* Packed layouts of two dimensions
SizeInit ==
    /\ in_dims \in [1..2 -> 1..MaxExtent]
    /\ in_strides = get_fully_packed_strides(in_dims)
    /\ in_dt \in DataTypes
    /\ out_size = <<>>
    /\ out_packed = <<>>
    /\ out_strides = <<>>
    /\ PolicyInit({Unset})
    /\ DriverIdle
    /\ ProxyInit

\* allocate() up to the value it hands to DeviceAllocate
Call_allocate_mem_size ==
    /\ out_size = <<>>
    /\ ~datatype_size_throws(platform, in_dt)
    /\ \E m \in mem_size(platform, in_dims, in_strides, in_dt) :
          out_size' = <<m>>
    /\ UNCHANGED <<in_dims, in_strides, in_dt, out_packed, out_strides,
                   policy_vars, driver_vars, proxy_vars>>

SizeNext == Call_allocate_mem_size

SpecSize == SizeInit /\ [][SizeNext]_vars

\* The byte size of the layout, computed without loss
ExactBytes == in_dims[1] * in_strides[1] * datatype_size(platform, in_dt)

\* C19: the byte size allocate() requests equals dims[0] * strides[0] *
\* element size for every packed layout whose byte size is representable in
\* size_t, also when dims[0] * strides[0] exceeds the range of int.
C19_ByteSizeExact ==
    (out_size # <<>> /\ ExactBytes <= SIZE_MAX) => out_size = <<ExactBytes>>

\* No backend call and no allocator call has reported an error: every copy
\* that failed is one copy_tensor refused itself before calling the backend
\* ("Only float."), and every allocate that failed is one datatype_size
\* refused before calling the allocator.
NoReportedError ==
    \A x \in ProxyIds :
        LET dt == CallerLayouts[proxies[x].arg_desc].dt
        IN /\ \A i \in Calls(x, "copy") :
                 ~log[x][i].ok => (platform = "ROCM" /\ dt # "FLOAT")
           /\ (proxies[x].st = "failed" /\ proxies[x].alloc_buf = 0) =>
                 datatype_size_throws(platform, dt)

\* Every proxy has been constructed and its life is over
AllProxiesGone ==
    \A x \in ProxyIds : proxies[x].st \in {"destroyed", "failed"}

\* C20: as long as no backend or allocator call has reported an error, no
\* buffer is freed twice and no descriptor destroyed twice, and once every
\* proxy is gone each buffer a proxy allocated has been freed exactly once
\* and each descriptor a proxy made has been destroyed exactly once.
C20_ResourceBalance ==
    NoReportedError =>
        /\ \A b \in 1..Len(bufs) : bufs[b].frees <= 1
        /\ \A d \in 1..Len(descs) : descs[d].destroys <= 1
        /\ AllProxiesGone =>
              /\ \A b \in (1..Len(bufs)) \ CallerTensors :
                    bufs[b].frees = 1 /\ ~bufs[b].live
              /\ \A d \in (1..Len(descs)) \ CallerTensors :
                    descs[d].destroys = 1 /\ ~descs[d].live

====
